---- MODULE Spec2Model ----
(***************************************************************************)
(* lrcput.py: embed .lrc sidecar files into the lyrics tag of FLAC, MP3    *)
(* and M4A files.  The model is the state machine of embed_lrc (one loop   *)
(* iteration split at the points where an exception can leave the try      *)
(* block), over a directory tree whose files carry the tag state that the  *)
(* mutagen calls of the source read and write.                             *)
(***************************************************************************)
EXTENDS Integers, Sequences, FiniteSets, TLC

(* ------------------------------ bounds --------------------------------- *)
\* most directory entries os.walk yields in one tree
MaxFiles == 2
\* most of these entries that lie in subdirectories
MaxSub == 1

(* ------------------------------ values --------------------------------- *)
\* the content of a path that does not exist
Absent == <<"absent">>
\* the keys the source writes (lines 74, 78, 82)
FlacKey == "LYRICS"
Mp4Key == "xa9lyr"
\* USLT(encoding=3, text=...) has desc '' and lang 'XXX': its HashKey
UsltHash == "USLT::XXX"
\* a USLT frame another tagger wrote, with a description and a language
UsltEngHash == "USLT:d:eng"

\* text a container carried before the run
OldText == <<"o", "o">>

\* bytes of a sidecar file; XFF is a byte that no UTF-8 sequence contains
LrcSamples == { <<"a">>, <<"a", "CR", "LF">>, <<"XFF">> }

\* directory entries of the tree: the file name is stem + suffix.  The i-th
\* entry is named after its position (names are interchangeable), or it is
\* the dot file whose whole name is ".flac"
StemNames == <<"a", "b", "c", "d">>
Suffixes == {".flac", ".mp3", ".m4a"}
\* a suffix written in capitals, as some rippers and file systems produce it
UpperSuffixes == {".FLAC"}
Entries(i) ==
  [stem : {StemNames[i]}, suffix : Suffixes \cup UpperSuffixes]
    \cup {[stem |-> "", suffix |-> ".flac"]}

\* one tag of a container file: a Vorbis comment, an MP4 atom or an ID3 frame
\* (key is the frame's HashKey there)
Frame(k, t) == [key |-> k, text |-> t]

\* the tag section of an audio file: block says whether the file carries a
\* tag block at all (Vorbis comment block, ilst atom, ID3 header)
Container(fs) == [block |-> TRUE, frames |-> fs]
NoTagBlock == [block |-> FALSE, frames |-> <<>>]

\* what the file of an entry can hold before the first run
ContainerStates(e) ==
  IF e.stem = "" \/ e.suffix \in UpperSuffixes THEN {Container(<<>>)}
  ELSE IF e.suffix = ".flac"
    THEN {NoTagBlock, Container(<<>>), Container(<<Frame(FlacKey, OldText)>>)}
  ELSE IF e.suffix = ".m4a"
    THEN {NoTagBlock, Container(<<>>), Container(<<Frame(Mp4Key, OldText)>>)}
  ELSE {NoTagBlock, Container(<<>>), Container(<<Frame(UsltHash, OldText)>>),
        Container(<<Frame(UsltEngHash, OldText)>>)}

(* --------------------------- path arithmetic --------------------------- *)
\* os.path.splitext(...)[1]: a leading period of the name belongs to the
\* root, so the name ".flac" has root ".flac" and extension "".  The roots of
\* the entries of a tree differ, so each entry has a sidecar path of its own.
SplitextExt(e) == IF e.stem = "" THEN "" ELSE e.suffix

\* str.lower on the extensions of the model
Lower(x) ==
  CASE x = ".FLAC" -> ".flac"
    [] x = ".MP3" -> ".mp3"
    [] x = ".M4A" -> ".m4a"
    [] OTHER -> x

\* file.endswith(('.flac', '.mp3', '.m4a')): the name ends with its suffix,
\* compared as written
IsAudioName(e) == e.suffix \in {".flac", ".mp3", ".m4a"}

\* file_extension of line 50
FileExtension(e) == Lower(SplitextExt(e))

(* ------------------------------ sidecar text --------------------------- *)
\* open(lrc_path, 'r', encoding='utf-8').read(): decoding fails on a byte
\* that is not UTF-8; text mode returns every line ending as "\n"
RECURSIVE Newlines(_)
Newlines(b) ==
  IF b = <<>> THEN <<>>
  ELSE IF Head(b) = "CR" /\ Len(b) > 1 /\ b[2] = "LF"
    THEN <<"LF">> \o Newlines(SubSeq(b, 3, Len(b)))
  ELSE IF Head(b) = "CR" THEN <<"LF">> \o Newlines(Tail(b))
  ELSE <<Head(b)>> \o Newlines(Tail(b))

\* the result of a call that can raise: the exception, or the value
NoExc == "none"
Raised(x) == [exc |-> x, value |-> <<>>]
Returned(v) == [exc |-> NoExc, value |-> v]

\* exceptions of the environment: a file that cannot be opened, parsed,
\* written, deleted or renamed
IOErrors == {"OSError:open", "MutagenError:load", "MutagenError:save",
             "OSError:remove", "OSError:move"}

\* decoding with errors='replace': U+FFFD stands for every invalid byte
ReadTextReplace(b) ==
  Returned(Newlines([i \in 1..Len(b) |-> IF b[i] = "XFF" THEN "UFFFD" ELSE b[i]]))

ReadText(b) ==
  IF \E i \in 1..Len(b) : b[i] = "XFF"
    THEN Raised("UnicodeDecodeError")
    ELSE Returned(Newlines(b))

(* ------------------------------ mutagen -------------------------------- *)
HasKey(fs, k) == \E i \in 1..Len(fs) : fs[i].key = k

\* d[k] = v on a dict: the entry of k is replaced in place, or added last
SetKey(fs, k, f) ==
  IF HasKey(fs, k)
    THEN [i \in 1..Len(fs) |-> IF fs[i].key = k THEN f ELSE fs[i]]
    ELSE Append(fs, f)

RECURSIVE DelKey(_, _)
DelKey(fs, k) ==
  IF fs = <<>> THEN <<>>
  ELSE IF Head(fs).key = k THEN DelKey(Tail(fs), k)
  ELSE <<Head(fs)>> \o DelKey(Tail(fs), k)

\* FLAC(path), ID3(path), MP4(path): ID3 raises ID3NoHeaderError on a file
\* without an ID3 header; FLAC and MP4 load such a file with tags = None.
\* io_ok: the environment lets the file be opened and parsed
Load(ext, f, io_ok) ==
  IF ~io_ok THEN Raised("MutagenError:load")
  ELSE IF ext = ".mp3" /\ ~f.block THEN Raised("ID3NoHeaderError")
  ELSE Returned(f)

\* has_embedded_lyrics(audio, file_extension), audio as loaded from f
has_embedded_lyrics(f, ext) ==
  IF ext = ".flac" THEN
    \* FileType.__contains__ is False when tags is None
    Returned(f.block /\ HasKey(f.frames, FlacKey))
  ELSE IF ext = ".m4a" THEN
    \* audio.tags is None without an ilst atom: "in None" is a TypeError
    (IF f.block THEN Returned(HasKey(f.frames, Mp4Key)) ELSE Raised("TypeError:in"))
  ELSE IF ext = ".mp3" THEN
    \* audio is ID3(path), the tag itself, which has no attribute "tags"
    Raised("AttributeError")
  ELSE Returned(FALSE)

\* ID3(path): the frames of the file enter a dict under their HashKey, a
\* later frame replacing an earlier one of the same HashKey.  A dict entry
\* is [dkey, frame].
RECURSIVE ID3Load(_)
ID3Load(fs) ==
  IF fs = <<>> THEN <<>>
  ELSE LET f == fs[Len(fs)]
           d == ID3Load(SubSeq(fs, 1, Len(fs) - 1))
       IN  SetKey(d, f.key, [key |-> f.key, frame |-> f])

\* bytes of a USLT frame: encoding, lang, desc, terminator, text
DescLen(hash) == IF hash = UsltEngHash THEN 1 ELSE 0
FrameLen(f) == 1 + 3 + DescLen(f.key) + 1 + Len(f.text)
\* sort_key of ID3Tags._write for frames of one FrameID: (len(data), HashKey)
HashRank(hash) == IF hash = UsltEngHash THEN 2 ELSE 1
SortsAfter(f, g) ==
  \/ FrameLen(f) > FrameLen(g)
  \/ FrameLen(f) = FrameLen(g) /\ HashRank(f.key) > HashRank(g.key)

\* sorted() is stable: f goes behind every frame that does not sort after it
RECURSIVE Insert(_, _)
Insert(sorted, f) ==
  IF sorted = <<>> THEN <<f>>
  ELSE LET n == Len(sorted) IN
       IF SortsAfter(sorted[n], f)
         THEN Append(Insert(SubSeq(sorted, 1, n - 1), f), sorted[n])
         ELSE Append(sorted, f)

\* audio.save() of an ID3: every value of the dict is written, sorted
RECURSIVE ID3Save(_)
ID3Save(d) ==
  IF d = <<>> THEN <<>>
  ELSE Insert(ID3Save(SubSeq(d, 1, Len(d) - 1)), d[Len(d)].frame)

\* lines 72-83 without the load: the tag section that save() leaves in the
\* file.  save_ok: the environment lets the file be written; a save that
\* raises leaves the file as it was.
WrittenFile(f, ext, text, save_ok) ==
  IF ext = ".m4a" /\ ~f.block THEN
    \* audio.tags['\xa9lyr'] = lyrics: item assignment on None
    Raised("TypeError:setitem")
  ELSE IF ~save_ok THEN Raised("MutagenError:save")
  ELSE IF ext = ".flac" THEN
    \* audio['LYRICS'] = lyrics; tags None gets an empty block first
    Returned(Container(Append(DelKey(f.frames, FlacKey), Frame(FlacKey, text))))
  ELSE IF ext = ".mp3" THEN
    \* audio['USLT'] = USLT(...): the dict key is 'USLT', not the HashKey
    Returned(Container(ID3Save(SetKey(ID3Load(f.frames), "USLT",
                [key |-> "USLT", frame |-> Frame(UsltHash, text)]))))
  ELSE
    Returned(Container(SetKey(f.frames, Mp4Key, Frame(Mp4Key, text))))

\* the file extensions lines 59-64 and 72-83 have a branch for
Formats == {".flac", ".mp3", ".m4a"}

ExistsAlways(content) == TRUE

\* os.path.exists on a path of this content
Exists(content) == content # Absent

(* ------------------------------ state ---------------------------------- *)
VARIABLES
  tree,          \* the entries os.walk yields, in its order
  subdir,        \* subdir[i]: tree[i] lies in a subdirectory of the directory
  file,          \* file[i]: the tag section of the file of tree[i]
  lrc,           \* lrc[i]: the bytes at lrc_path of tree[i], or Absent
  lrc_failed,    \* lrc_failed[i]: the bytes at lrc_path + ".failed", or Absent
  skip_existing, \* -s
  reduce_lrc,    \* -r
  recursive,     \* -R
  lrc0,          \* lrc as it was when the current call began
  prior,         \* how the call before the current one ended
  pc,            \* where the current call stands
  audio_files,   \* line 33: indices into tree
  idx,           \* position of the for loop of line 46 in audio_files
  lyrics,        \* line 55
  embedded_lyrics_files,  \* line 41
  failed_files,  \* line 42
  result,        \* what the call returned (line 102)
  status,        \* status[k]: the pbar postfix set while at audio_files[k]
  exc,           \* exc[k]: the exception raised in the try block at position k
  loaded,        \* positions whose container the call loaded
  saved,         \* positions for which audio.save() returned
  counted,       \* positions for which line 85 ran
  removed        \* positions whose sidecar os.remove deleted

fsvars == <<tree, subdir, file, lrc, lrc_failed>>
args == <<skip_existing, reduce_lrc, recursive>>
locals == <<audio_files, idx, lyrics, embedded_lyrics_files, failed_files>>
history == <<status, exc, loaded, saved, counted, removed>>
vars == <<fsvars, args, prior, lrc0, pc, locals, result, history>>

\* the entry the loop is at, and what lines 47-50 derive from it
InLoop == idx <= Len(audio_files)
At == audio_files[idx]
Cur == tree[At]
CurExt == FileExtension(Cur)
CurFile == file[At]

NoResult == [total |-> -1, embedded |-> -1, failed |-> <<>>]

Init ==
  /\ \E n \in 0..MaxFiles :
       /\ tree \in [1..n -> UNION {Entries(i) : i \in 1..n}]
       /\ \A i \in 1..n : tree[i] \in Entries(i)
       /\ \A i, j \in 1..n : i # j => tree[i] # tree[j]
       /\ file \in [1..n -> UNION {ContainerStates(tree[i]) : i \in 1..n}]
       /\ \A i \in 1..n : file[i] \in ContainerStates(tree[i])
  \* os.walk yields the files of the directory before those of its
  \* subdirectories
  /\ \E nsub \in 0..(IF Len(tree) < MaxSub THEN Len(tree) ELSE MaxSub) :
       subdir = [i \in 1..Len(tree) |-> i > Len(tree) - nsub]
  /\ lrc \in [1..Len(tree) -> LrcSamples \cup {Absent}]
  /\ lrc0 = lrc
  /\ lrc_failed = [i \in 1..Len(tree) |-> Absent]
  /\ skip_existing \in BOOLEAN
  /\ reduce_lrc \in BOOLEAN
  /\ recursive \in BOOLEAN
  /\ prior = "none"
  /\ pc = "idle"
  /\ audio_files = <<>>
  /\ idx = 1
  /\ lyrics = <<>>
  /\ embedded_lyrics_files = 0
  /\ failed_files = <<>>
  /\ result = NoResult
  /\ status = <<>>
  /\ exc = <<>>
  /\ loaded = {}
  /\ saved = {}
  /\ counted = {}
  /\ removed = {}

(* ------------------------------ embed_lrc ------------------------------ *)
\* lines 31-45: collect the audio files of the tree, reset the counters.
\* os.walk descends into every subdirectory; recursive is not read
Call ==
  /\ pc \in {"idle", "returned", "raised"}
  /\ prior' = IF pc = "idle" THEN "none" ELSE pc
  /\ lrc0' = lrc
  /\ audio_files' = SelectSeq([i \in 1..Len(tree) |-> i], LAMBDA i : IsAudioName(tree[i]))
  /\ idx' = 1
  /\ lyrics' = <<>>
  /\ embedded_lyrics_files' = 0
  /\ failed_files' = <<>>
  /\ result' = NoResult
  /\ status' = [k \in 1..Len(audio_files') |-> "none"]
  /\ exc' = [k \in 1..Len(audio_files') |-> NoExc]
  /\ loaded' = {}
  /\ saved' = {}
  /\ counted' = {}
  /\ removed' = {}
  /\ pc' = "loop"
  /\ UNCHANGED <<fsvars, args>>

\* lines 46-52 and 100: no file at lrc_path, on to the next audio file
NoSidecar ==
  /\ pc = "loop" /\ InLoop
  /\ ~Exists(lrc[At])
  /\ idx' = idx + 1
  /\ UNCHANGED <<fsvars, args, prior, lrc0, pc, audio_files, lyrics,
                 embedded_lyrics_files, failed_files, result, history>>

\* lines 52-58: the sidecar exists; open and read it
ReadSidecar ==
  /\ pc = "loop" /\ InLoop
  /\ Exists(lrc[At])
  /\ \E io_ok \in BOOLEAN :
       LET r == IF io_ok THEN ReadText(lrc[At]) ELSE Raised("OSError:open") IN
       IF r.exc = NoExc
         THEN /\ lyrics' = r.value
              /\ pc' = IF skip_existing THEN "check" ELSE "write"
              /\ UNCHANGED exc
         ELSE /\ exc' = [exc EXCEPT ![idx] = r.exc]
              /\ pc' = "except"
              /\ UNCHANGED lyrics
  /\ UNCHANGED <<fsvars, args, prior, lrc0, audio_files, idx, embedded_lyrics_files,
                 failed_files, result, status, loaded, saved, counted, removed>>

\* lines 58-69: load the container and look for lyrics in it
SkipCheck ==
  /\ pc = "check"
  /\ \E io_ok \in BOOLEAN :
       LET audio == IF CurExt \in Formats THEN Load(CurExt, CurFile, io_ok)
                    ELSE Returned(CurFile)
           has == has_embedded_lyrics(audio.value, CurExt)
       IN
       IF audio.exc # NoExc
         THEN /\ exc' = [exc EXCEPT ![idx] = audio.exc]
              /\ pc' = "except"
              /\ UNCHANGED <<idx, status, loaded>>
         ELSE /\ loaded' = IF CurExt \in Formats THEN loaded \cup {idx} ELSE loaded
              /\ IF has.exc # NoExc
                   THEN /\ exc' = [exc EXCEPT ![idx] = has.exc]
                        /\ pc' = "except"
                        /\ UNCHANGED <<idx, status>>
                 ELSE IF has.value
                   THEN /\ status' = [status EXCEPT ![idx] = "skipped"]
                        /\ idx' = idx + 1
                        /\ pc' = "loop"
                        /\ UNCHANGED exc
                 ELSE pc' = "write" /\ UNCHANGED <<idx, status, exc>>
  /\ UNCHANGED <<fsvars, args, prior, lrc0, audio_files, lyrics, embedded_lyrics_files,
                 failed_files, result, saved, counted, removed>>

\* lines 72-83: load the container, set the lyrics tag, save
WriteLyrics ==
  /\ pc = "write"
  /\ IF CurExt \in Formats
       THEN \E load_ok, save_ok \in BOOLEAN :
              LET audio == Load(CurExt, CurFile, load_ok)
                  w == WrittenFile(audio.value, CurExt, lyrics, save_ok)
              IN
              IF audio.exc # NoExc
                THEN /\ exc' = [exc EXCEPT ![idx] = audio.exc]
                     /\ pc' = "except"
                     /\ UNCHANGED <<file, loaded, saved>>
              ELSE IF w.exc # NoExc
                THEN /\ exc' = [exc EXCEPT ![idx] = w.exc]
                     /\ pc' = "except"
                     /\ loaded' = loaded \cup {idx}
                     /\ UNCHANGED <<file, saved>>
              ELSE /\ file' = [file EXCEPT ![At] = w.value]
                   /\ loaded' = loaded \cup {idx}
                   /\ saved' = saved \cup {idx}
                   /\ pc' = "count"
                   /\ UNCHANGED exc
       ELSE pc' = "count" /\ UNCHANGED <<file, loaded, saved, exc>>
  /\ UNCHANGED <<tree, subdir, lrc, lrc_failed, args, prior, lrc0, locals, result, status,
                 counted, removed>>

\* lines 85-91 with the deletion not depending on reduce_lrc
CountEmbeddedAlwaysRemoves ==
  /\ pc = "count"
  /\ embedded_lyrics_files' = embedded_lyrics_files + 1
  /\ counted' = counted \cup {idx}
  /\ lrc' = [lrc EXCEPT ![At] = Absent]
  /\ removed' = removed \cup {idx}
  /\ status' = [status EXCEPT ![idx] = "embedded, LRC reduced"]
  /\ idx' = idx + 1
  /\ pc' = "loop"
  /\ UNCHANGED <<tree, subdir, file, lrc_failed, args, prior, lrc0, audio_files,
                 lyrics, failed_files, result, exc, loaded, saved>>

\* lines 85-91 and 100: count the file, delete the sidecar under -r
CountEmbedded ==
  /\ pc = "count"
  /\ embedded_lyrics_files' = embedded_lyrics_files + 1
  /\ counted' = counted \cup {idx}
  /\ IF reduce_lrc
       THEN \E rm_ok \in BOOLEAN :
              IF rm_ok
                THEN /\ lrc' = [lrc EXCEPT ![At] = Absent]
                     /\ removed' = removed \cup {idx}
                     /\ status' = [status EXCEPT ![idx] = "embedded, LRC reduced"]
                     /\ idx' = idx + 1
                     /\ pc' = "loop"
                     /\ UNCHANGED exc
                ELSE /\ status' = [status EXCEPT ![idx] = "embedded"]
                     /\ exc' = [exc EXCEPT ![idx] = "OSError:remove"]
                     /\ pc' = "except"
                     /\ UNCHANGED <<lrc, removed, idx>>
       ELSE /\ status' = [status EXCEPT ![idx] = "embedded"]
            /\ idx' = idx + 1
            /\ pc' = "loop"
            /\ UNCHANGED <<lrc, removed, exc>>
  /\ UNCHANGED <<tree, subdir, file, lrc_failed, args, prior, lrc0, audio_files, lyrics,
                 failed_files, result, loaded, saved>>

\* lines 93-98 without the rename: the sidecar stays where it is
ExceptKeepsSidecar ==
  /\ pc = "except"
  /\ failed_files' = Append(failed_files, Cur)
  /\ status' = [status EXCEPT ![idx] = "error"]
  /\ idx' = idx + 1
  /\ pc' = "loop"
  /\ UNCHANGED <<fsvars, args, prior, lrc0, audio_files, lyrics, embedded_lyrics_files,
                 result, exc, loaded, saved, counted, removed>>

\* lines 93-100: the except block; an exception of shutil.move leaves
\* embed_lrc
Except ==
  /\ pc = "except"
  /\ failed_files' = Append(failed_files, Cur)
  /\ status' = [status EXCEPT ![idx] = "error"]
  /\ IF Exists(lrc[At])
       THEN \E mv_ok \in BOOLEAN :
              IF mv_ok
                THEN /\ lrc_failed' = [lrc_failed EXCEPT ![At] = lrc[At]]
                     /\ lrc' = [lrc EXCEPT ![At] = Absent]
                     /\ idx' = idx + 1
                     /\ pc' = "loop"
                ELSE /\ pc' = "raised"
                     /\ UNCHANGED <<lrc, lrc_failed, idx>>
       ELSE /\ idx' = idx + 1
            /\ pc' = "loop"
            /\ UNCHANGED <<lrc, lrc_failed>>
  /\ UNCHANGED <<tree, subdir, file, args, prior, lrc0, audio_files, lyrics,
                 embedded_lyrics_files, result, exc, loaded, saved, counted, removed>>

\* line 102
Return ==
  /\ pc = "loop" /\ ~InLoop
  /\ result' = [total |-> Len(audio_files), embedded |-> embedded_lyrics_files,
                failed |-> failed_files]
  /\ pc' = "returned"
  /\ UNCHANGED <<fsvars, args, prior, lrc0, locals, history>>

Next ==
  \/ Call
  \/ NoSidecar
  \/ ReadSidecar
  \/ SkipCheck
  \/ WriteLyrics
  \/ CountEmbedded
  \/ Except
  \/ Return

Spec == Init /\ [][Next]_vars

(* ------------------------------ properties ----------------------------- *)
Range(q) == {q[i] : i \in 1..Len(q)}
Positions == 1..Len(audio_files)
EntryAt(k) == tree[audio_files[k]]
ExtAt(k) == FileExtension(EntryAt(k))
FileAt(k) == file[audio_files[k]]

\* the container carries a lyrics tag: a LYRICS comment, a lyrics atom, or a
\* USLT frame of any description and language
LyricsTagPresent(f, ext) ==
  /\ f.block
  /\ \E i \in 1..Len(f.frames) :
       f.frames[i].key \in (IF ext = ".flac" THEN {FlacKey}
                            ELSE IF ext = ".m4a" THEN {Mp4Key}
                            ELSE {UsltHash, UsltEngHash})

\* the lyrics a fresh load of the file shows under the key the source writes
LyricsOf(f, ext) ==
  LET k == IF ext = ".flac" THEN FlacKey ELSE IF ext = ".m4a" THEN Mp4Key ELSE UsltHash
      fs == IF ext = ".mp3"
              THEN [i \in 1..Len(ID3Load(f.frames)) |-> ID3Load(f.frames)[i].frame]
              ELSE f.frames
  IN  {fs[i].text : i \in {j \in 1..Len(fs) : fs[j].key = k}}

\* exceptions of loading the container or writing the tag (lines 60-64, 72-83)
LoadWriteErrors ==
  {"MutagenError:load", "ID3NoHeaderError", "MutagenError:save", "TypeError:setitem"}

\* C1: a failure while processing one file never aborts the batch: a call
\* that has ended has passed every audio file and returned its result.
C1_Isolation ==
  pc \in {"returned", "raised"} => (pc = "returned" /\ idx > Len(audio_files))

\* C2: a file counted as embedded had its tag written and saved, and a fresh
\* load of the file shows exactly the text read from the sidecar (checked
\* right after the count, while lyrics still holds that text).
C2_RoundTrip ==
  \A k \in counted :
    ((pc = "loop" /\ k = idx - 1) \/ (pc = "except" /\ k = idx)) =>
      (k \in saved /\ LyricsOf(FileAt(k), ExtAt(k)) = {lyrics})

\* C3: os.remove deletes a sidecar only under -r and after a save of that
\* file's container returned.
C3_DeleteOnlyAfterWrite ==
  \A k \in removed : reduce_lrc /\ k \in saved

\* C4: a file whose sidecar could not be deleted after the embed stays
\* counted as embedded and is not listed as failed.
C4_DeleteFailureStaysEmbedded ==
  \A k \in Positions :
    exc[k] = "OSError:remove" => (k \in counted /\ EntryAt(k) \notin Range(failed_files))

\* C5: under -s a file of one of the three formats whose container has no
\* lyrics tag goes on to the write and, the environment failing nowhere, to
\* the count.
C5_NoTagProceeds ==
  [][(/\ pc \in {"check", "write"}
      /\ skip_existing
      /\ CurExt \in Formats
      /\ ~LyricsTagPresent(CurFile, CurExt)
      /\ exc'[idx] \notin IOErrors)
     => pc' \in {"write", "count"}]_vars

\* C6: at the call of line 66, on a container that loaded, has_embedded_lyrics
\* does not raise and returns whether the container carries a lyrics tag.
C6_DetectNeverRaises ==
  (pc = "check" /\ CurExt \in Formats /\ Load(CurExt, CurFile, TRUE).exc = NoExc) =>
    has_embedded_lyrics(CurFile, CurExt) = Returned(LyricsTagPresent(CurFile, CurExt))

\* C7: under -s a container that already has a lyrics tag is skipped: no
\* write, sidecar in place, neither counted nor listed as failed.
C7_SkipLeavesAll ==
  [][(/\ pc = "check"
      /\ skip_existing
      /\ CurExt \in Formats
      /\ LyricsTagPresent(CurFile, CurExt)
      /\ exc'[idx] \notin IOErrors)
     => (/\ status'[idx] = "skipped"
         /\ pc' = "loop"
         /\ UNCHANGED <<fsvars, embedded_lyrics_files, failed_files, saved, counted>>)]_vars

\* C8: under -s a call that returns after a call that returned reports no
\* embedded file.
C8_SecondRunEmbedsNothing ==
  (pc = "returned" /\ prior = "returned" /\ skip_existing) => result.embedded = 0

\* C9: an audio file without a sidecar is passed over: its container is
\* neither loaded nor written, nothing is counted or listed as failed, and
\* the total returned counts it.
C9_NoSidecarUntouched ==
  [][/\ (pc = "loop" /\ InLoop /\ lrc[At] = Absent) =>
          /\ idx' = idx + 1
          /\ pc' = "loop"
          /\ UNCHANGED <<fsvars, embedded_lyrics_files, failed_files, history>>
     /\ pc' = "returned" => result'.total = Len(audio_files)]_vars

C9_Witness ==
  /\ pc = "returned" /\ prior = "none"
  /\ result.total = 2 /\ result.embedded = 1 /\ result.failed = <<>>
  /\ \E k \in Positions :
       /\ lrc[audio_files[k]] = Absent /\ lrc_failed[audio_files[k]] = Absent
       /\ status[k] = "none" /\ k \notin loaded \cup removed

C11_RenameBestEffort ==
  [][(pc = "except" /\ Exists(lrc[At]) /\ lrc'[At] = lrc[At]) =>
       (/\ failed_files' = Append(failed_files, Cur)
        /\ embedded_lyrics_files' = embedded_lyrics_files
        /\ idx' = idx + 1
        /\ pc' = "loop")]_vars

\* a file counted as embedded that the call is done with: the loop is past
\* it, or (ended == TRUE) the call ended at it
DoneEmbedded(k, ended) ==
  /\ k \in counted
  /\ k < idx \/ (ended /\ k = idx /\ pc = "raised")

C13_InvalidSidecarFails ==
  [][(/\ pc \in {"loop", "except"} /\ InLoop
      /\ Exists(lrc[At])
      /\ \E i \in 1..Len(lrc[At]) : lrc[At][i] = "XFF")
     => (/\ UNCHANGED <<file, loaded, saved, counted, embedded_lyrics_files>>
         /\ idx \notin loaded \cup saved \cup counted
         /\ pc = "loop" =>
              (pc' = "except" /\ exc'[idx] \in {"UnicodeDecodeError", "OSError:open"})
         /\ pc = "except" => failed_files' = Append(failed_files, Cur))]_vars

C13_Witness ==
  \E k \in Positions :
    /\ k < idx /\ exc[k] = "UnicodeDecodeError"
    /\ ExtAt(k) \in Formats
    /\ lrc_failed[audio_files[k]] = <<"XFF">>
    /\ EntryAt(k) \in Range(failed_files)
    /\ k \notin loaded \cup counted

\* C14: every entry whose extension, in any letter case, is one of the three
\* formats is among the audio files of the call.
C14_CaseInsensitive ==
  pc # "idle" =>
    \A i \in 1..Len(tree) :
      FileExtension(tree[i]) \in Formats => i \in Range(audio_files)

\* C15: right after a save of an MP3 the file carries exactly one USLT frame,
\* which holds the text read from the sidecar.
C15_OneUsltFrame ==
  (pc = "count" /\ CurExt = ".mp3") =>
    (Len(CurFile.frames) = 1 /\ CurFile.frames[1].text = lyrics)

\* the failed files of positions 1..k with their error messages, in order.
\* A deletion that failed after the embed is no Failed outcome.
RECURSIVE FailedReport(_)
FailedReport(k) ==
  IF k = 0 THEN <<>>
  ELSE IF exc[k] \notin {NoExc, "OSError:remove"}
    THEN Append(FailedReport(k - 1), [file |-> EntryAt(k), error |-> exc[k]])
    ELSE FailedReport(k - 1)

\* C16: the failed list returned holds, in processing order, each failed file
\* once with its error message; the total is the number of audio files.
C16_FailedList ==
  pc = "returned" =>
    /\ result.total = Len(audio_files)
    /\ Len(result.failed) = Len(FailedReport(Len(audio_files)))
    /\ \A j \in 1..Len(result.failed) :
         /\ DOMAIN result.failed[j] = {"file", "error"}
         /\ result.failed[j] = FailedReport(Len(audio_files))[j]

\* C17: without -R no file of a subdirectory is among the audio files.
C17_RecursiveOnlyWithFlag ==
  (pc # "idle" /\ ~recursive) =>
    \A k \in Positions : ~subdir[audio_files[k]]

\* C18: no file is both counted as embedded and in the failed list, and the
\* embedded count plus the length of the failed list is at most the total.
C18_OneOutcome ==
  /\ \A k \in counted : EntryAt(k) \notin Range(failed_files)
  /\ embedded_lyrics_files + Len(failed_files) <= Len(audio_files)

\* C19: when a call has ended, the content of every sidecar that existed when
\* it began is at the .lrc path, at the .lrc.failed path, or (as text) in the
\* lyrics tag of the audio file.
C19_SidecarNeverLost ==
  pc \in {"returned", "raised"} =>
    \A i \in 1..Len(tree) :
      lrc0[i] # Absent =>
        \/ lrc[i] = lrc0[i]
        \/ lrc_failed[i] = lrc0[i]
        \/ /\ ReadText(lrc0[i]).exc = NoExc
           /\ ReadText(lrc0[i]).value \in LyricsOf(file[i], FileExtension(tree[i]))

====
